---- MODULE Spec2Model ----
(***************************************************************************)
(* Model of the sub-feature detail stage of the meeting summarizer         *)
(* (src/Sub_Feature_Detailed_Agent.py, extract_sub_features_details):      *)
(* the outline parser, the block grouping and the resume-aware driver      *)
(* that writes one detail file per block.  The stages around it follow:    *)
(* the main-feature detail stage, the outline extraction stage, the        *)
(* transcript store and the manager that calls them as tools.              *)
(*                                                                         *)
(* A Python str is a sequence of one-character strings.  Two characters    *)
(* that TLA+ strings cannot hold are written as tokens: "ndash" is the     *)
(* en-dash U+2013 and "bullet" is the bullet glyph U+2022.                 *)
(***************************************************************************)
EXTENDS Integers, Sequences, FiniteSets, TLC

VARIABLES
    sub_features_txt,   \* content of <folder>/sub_features.txt, or NoFile
    fs,                 \* the files under the meeting folder: path -> content
    fs0,                \* fs as it was when the current run started
    pc,                 \* position of the running call (or idle/done/crashed)
    run,                \* number of driver runs started so far
    sub_features_map,   \* the parsed outline: ordered dict title -> children
    mi,                 \* position in sub_features_map.items()
    main_feature_text,  \* content read from the main feature's detail file
    feature_blocks,     \* blocks of the main feature being processed
    bi,                 \* position in feature_blocks
    feature_details,    \* <<details>> returned by inference, while writing
    outcomes,           \* per-block outcomes of the current run, in order
    infer_log,          \* paths whose inference was invoked in the current run
    result,             \* the string the run returned (by kind)
    prev,               \* summary of the previous run
    feature,            \* a feature title handed to the file-name sanitizer
    safe_feature,       \* the sanitized title
    database,           \* <folder>/database.json, by what it holds
    main_features_txt,  \* content of <folder>/main_features.txt, or NoFile
    main_features,      \* the titles read from main_features.txt
    fi,                 \* position in main_features
    completed_features, \* the titles Extract-Sub found in sub_features.txt
    cwd_record,         \* ./database.json holds a record of the transcript
    stage_log           \* the manager's tool calls of the session, in order

\* the variables the sub-feature detail stage does not touch
slugVars == <<feature, safe_feature>>
mainVars == <<database, main_features_txt, main_features, fi,
             completed_features>>
pipeVars == <<cwd_record, stage_log>>
otherVars == <<slugVars, mainVars, pipeVars>>

vars == <<sub_features_txt, fs, fs0, pc, run, sub_features_map, mi,
          main_feature_text, feature_blocks, bi, feature_details, outcomes,
          infer_log, result, prev, otherVars>>

-----------------------------------------------------------------------------
(* Characters and the str methods the stage uses                           *)

EnDash == "ndash"
BulletGlyph == "bullet"
NL == "\n"

UpperSeq == <<"A","B","C","D","E","F","G","H","I","J","K","L","M",
              "N","O","P","Q","R","S","T","U","V","W","X","Y","Z">>
LowerSeq == <<"a","b","c","d","e","f","g","h","i","j","k","l","m",
              "n","o","p","q","r","s","t","u","v","w","x","y","z">>
Digits == {"0","1","2","3","4","5","6","7","8","9"}

\* str.strip() / str.lstrip() without argument remove these
Whitespace == {" ", "\t", "\n", "\r"}

Range(s) == {s[i] : i \in 1..Len(s)}

\* s.lstrip(chars)
RECURSIVE LStrip(_, _)
LStrip(s, chars) ==
    IF s # <<>> /\ Head(s) \in chars THEN LStrip(Tail(s), chars) ELSE s

\* s.rstrip(chars)
RECURSIVE RStrip(_, _)
RStrip(s, chars) ==
    IF s # <<>> /\ s[Len(s)] \in chars
    THEN RStrip(SubSeq(s, 1, Len(s) - 1), chars)
    ELSE s

\* s.strip()
Strip(s) == RStrip(LStrip(s, Whitespace), Whitespace)

\* index of the first occurrence of character c in s, 0 if there is none
FirstIndex(s, c) ==
    IF c \in Range(s)
    THEN CHOOSE i \in 1..Len(s) : s[i] = c /\ \A j \in 1..(i-1) : s[j] # c
    ELSE 0

\* s.split(c, 1)[0]
BeforeFirst(s, c) ==
    IF FirstIndex(s, c) = 0 THEN s ELSE SubSeq(s, 1, FirstIndex(s, c) - 1)

\* s.split(c, 1)[1]   (only used where c occurs in s)
AfterFirst(s, c) == SubSeq(s, FirstIndex(s, c) + 1, Len(s))

\* s.split("\n") : the pieces between newline characters
RECURSIVE SplitNL(_)
SplitNL(s) ==
    IF FirstIndex(s, NL) = 0 THEN <<s>>
    ELSE <<BeforeFirst(s, NL)>> \o SplitNL(AfterFirst(s, NL))

\* "\n".join(ls)
RECURSIVE JoinNL(_)
JoinNL(ls) ==
    IF ls = <<>> THEN <<>>
    ELSE IF Len(ls) = 1 THEN ls[1]
    ELSE ls[1] \o <<NL>> \o JoinNL(Tail(ls))

\* " " * n
Spaces(n) == [i \in 1..n |-> " "]

\* c.lower() for one character
LowerChar(c) ==
    IF \E i \in 1..26 : UpperSeq[i] = c
    THEN LowerSeq[CHOOSE i \in 1..26 : UpperSeq[i] = c]
    ELSE c

\* s.lower()
Lower(s) == [i \in 1..Len(s) |-> LowerChar(s[i])]

\* the character class [a-zA-Z0-9_-]
SafeChars == Range(UpperSeq) \cup Range(LowerSeq) \cup Digits \cup {"_", "-"}

\* variant: the title is not lower-cased before the substitution
Slugify_NoLower(title) ==
    [i \in 1..Len(title) |-> IF title[i] \in SafeChars THEN title[i] ELSE "_"]

\* re.sub(r'[^a-zA-Z0-9_-]', '_', title.lower())
Slugify(title) ==
    [i \in 1..Len(title) |->
        IF Lower(title)[i] \in SafeChars THEN Lower(title)[i] ELSE "_"]

-----------------------------------------------------------------------------
(* Outline parsing                                                         *)

\* f.readlines() followed by line.rstrip("\n") for every line
RECURSIVE ReadLines(_)
ReadLines(text) ==
    IF text = <<>> THEN <<>>
    ELSE IF FirstIndex(text, NL) = 0 THEN <<text>>
    ELSE <<BeforeFirst(text, NL)>> \o ReadLines(AfterFirst(text, NL))

\* re.match(r"^\d+\)", stripped)
RECURSIVE MatchDigitsParen(_, _)
MatchDigitsParen(s, seen) ==
    IF s = <<>> THEN FALSE
    ELSE IF Head(s) \in Digits THEN MatchDigitsParen(Tail(s), TRUE)
    ELSE seen /\ Head(s) = ")"

IsMainLine(raw) == Strip(raw) # <<>> /\ MatchDigitsParen(Strip(raw), FALSE)

\* stripped.startswith(("-", en-dash, bullet glyph))
IsBulletLine(raw) ==
    /\ ~IsMainLine(raw)
    /\ Strip(raw) # <<>>
    /\ Head(Strip(raw)) \in {"-", EnDash, BulletGlyph}

\* variant: the text after the parenthesis is taken as it is
MainTitle_NoStrip(raw) == AfterFirst(Strip(raw), ")")

\* stripped.split(")", 1)[1].strip()
MainTitle(raw) == Strip(AfterFirst(Strip(raw), ")"))

\* len(raw) - len(raw.lstrip(" "))
IndentLevel(raw) == Len(raw) - Len(LStrip(raw, {" "}))

\* The dict of the parser, in insertion order: a sequence of <<key, value>>
\* entries.  Assigning to a key that is present replaces the value in place.
HasKey(d, k) == \E i \in 1..Len(d) : d[i].key = k
KeyIndex(d, k) == CHOOSE i \in 1..Len(d) : d[i].key = k

DictAssign(d, k, v) ==
    IF HasKey(d, k)
    THEN [d EXCEPT ![KeyIndex(d, k)].val = v]
    ELSE Append(d, [key |-> k, val |-> v])

DictAppend(d, k, x) ==
    [d EXCEPT ![KeyIndex(d, k)].val = Append(@, x)]

\* The parse loop.  main_feature is <<>> for None and <<title>> otherwise.
\* sub_features_map[None].append raises KeyError: the loop stops with err.
RECURSIVE ParseLoop(_, _, _, _)
ParseLoop(lines, i, main_feature, map) ==
    IF i > Len(lines) THEN [err |-> FALSE, map |-> map]
    ELSE IF IsMainLine(lines[i])
    THEN ParseLoop(lines, i + 1, <<MainTitle(lines[i])>>,
                   DictAssign(map, MainTitle(lines[i]), <<>>))
    ELSE IF IsBulletLine(lines[i])
    THEN IF main_feature = <<>>
         THEN [err |-> TRUE, map |-> <<>>]
         ELSE ParseLoop(lines, i + 1, main_feature,
                        DictAppend(map, main_feature[1],
                                   <<IndentLevel(lines[i]), Strip(lines[i])>>))
    ELSE ParseLoop(lines, i + 1, main_feature, map)

ParseOutline(text) == ParseLoop(ReadLines(text), 1, <<>>, <<>>)

-----------------------------------------------------------------------------
(* Block grouping                                                          *)

IndentThreshold == 3

\* variant: the parser's bullet test (hyphen, en-dash or bullet glyph)
StartsBlock_AnyBullet(indent, sub) ==
    indent <= IndentThreshold /\ Head(sub) \in {"-", EnDash, BulletGlyph}

\* indent <= 3 and sub.startswith("-")
StartsBlock(indent, sub) == indent <= IndentThreshold /\ Head(sub) = "-"

\* variant: the flush after the loop (lines 123-124) is missing
RECURSIVE GroupLoop_NoFinalFlush(_, _, _, _)
GroupLoop_NoFinalFlush(subs, i, blocks, current_block) ==
    IF i > Len(subs)
    THEN blocks
    ELSE LET indent == subs[i][1]
             sub == subs[i][2]
             flush == StartsBlock(indent, sub) /\ current_block # <<>>
         IN GroupLoop_NoFinalFlush(subs, i + 1,
                      IF flush THEN Append(blocks, JoinNL(current_block))
                               ELSE blocks,
                      Append(IF flush THEN <<>> ELSE current_block,
                             Spaces(indent) \o sub))

\* variant: the flush after the loop does not test current_block
RECURSIVE GroupLoop_AlwaysFlush(_, _, _, _)
GroupLoop_AlwaysFlush(subs, i, blocks, current_block) ==
    IF i > Len(subs)
    THEN Append(blocks, JoinNL(current_block))
    ELSE LET indent == subs[i][1]
             sub == subs[i][2]
             flush == StartsBlock(indent, sub) /\ current_block # <<>>
         IN GroupLoop_AlwaysFlush(subs, i + 1,
                      IF flush THEN Append(blocks, JoinNL(current_block))
                               ELSE blocks,
                      Append(IF flush THEN <<>> ELSE current_block,
                             Spaces(indent) \o sub))

RECURSIVE GroupLoop(_, _, _, _)
GroupLoop(subs, i, blocks, current_block) ==
    IF i > Len(subs)
    THEN IF current_block # <<>>
         THEN Append(blocks, JoinNL(current_block))
         ELSE blocks
    ELSE LET indent == subs[i][1]
             sub == subs[i][2]
             flush == StartsBlock(indent, sub) /\ current_block # <<>>
         IN GroupLoop(subs, i + 1,
                      IF flush THEN Append(blocks, JoinNL(current_block))
                               ELSE blocks,
                      Append(IF flush THEN <<>> ELSE current_block,
                             Spaces(indent) \o sub))

GroupBlocks(sub_features) == GroupLoop(sub_features, 1, <<>>, <<>>)

\* block.split("\n", 1)[0].lstrip("-" en-dash bullet " ").strip()
BlockTitle(block) ==
    Strip(LStrip(BeforeFirst(block, NL), {"-", EnDash, BulletGlyph, " "}))

-----------------------------------------------------------------------------
(* Files                                                                   *)

\* A path below the meeting folder is <<folder, name>>: the file
\* <folder_name>/<folder>/<name>.txt.  A content is the sequence of the parts
\* written to the file so far.
MainFile(safe_main) == <<safe_main, safe_main>>
SubFile(safe_main, safe_sub) == <<safe_main, safe_sub>>

\* variant: only a main feature's own detail file is ever found
Exists_OnlyMainFile(files, path) == path \in DOMAIN files /\ path[1] = path[2]

\* variant: a file whose last part is not the detail text counts as missing
Exists_Complete(files, path) ==
    /\ path \in DOMAIN files
    /\ files[path] # <<>>
    /\ files[path][Len(files[path])].tag = "details"

\* os.path.exists(path)
Exists(files, path) == path \in DOMAIN files

NoFile == <<"<absent>">>

\* the four f.write calls of a block's detail file
SubFileParts(main_feature, block, details) ==
    << [tag |-> "Main Feature", arg |-> main_feature],
       [tag |-> "Feature Block", arg |-> block],
       [tag |-> "=", arg |-> [i \in 1..(20 + Len(BlockTitle(block))) |-> "="]],
       [tag |-> "details", arg |-> details] >>

\* what Detail-Main left in a main feature's detail file
MainDetailContent(safe_main) ==
    << [tag |-> "Main Feature", arg |-> safe_main],
       [tag |-> "=", arg |-> [i \in 1..(15 + Len(safe_main)) |-> "="]],
       [tag |-> "details", arg |-> <<"m">>] >>

\* what the inference collaborator may return as FeatureDetails.details
InferOutputs == { <<"d">> }

-----------------------------------------------------------------------------
(* The driver: extract_sub_features_details                                *)

MaxRuns == 2
MaxLines == 4

CurMain == sub_features_map[mi].key
CurSubFeatures == sub_features_map[mi].val
SafeMain == Slugify(CurMain)
CurBlock == feature_blocks[bi]
CurTitle == BlockTitle(CurBlock)
CurPath == SubFile(SafeMain, Slugify(CurTitle))

Outcome(kind) ==
    [mf |-> CurMain, title |-> CurTitle, path |-> CurPath, kind |-> kind]

\* a call of the tool starts: a fresh process state, the files as they are
BeginRun ==
    /\ pc \in {"idle", "done", "crashed"}
    /\ run < MaxRuns
    /\ run' = run + 1
    /\ fs0' = fs
    /\ prev' = [completed |-> pc = "done", outcomes |-> outcomes,
                result |-> result]
    /\ outcomes' = <<>>
    /\ infer_log' = <<>>
    /\ main_feature_text' = <<>>
    /\ feature_blocks' = <<>>
    /\ feature_details' = <<>>
    /\ bi' = 0
    /\ UNCHANGED <<sub_features_txt, fs>>
    /\ UNCHANGED otherVars

\* lines 69-70: sub_features.txt is missing
StartNoFile ==
    /\ BeginRun
    /\ sub_features_txt = NoFile
    /\ sub_features_map' = <<>>
    /\ mi' = 0
    /\ result' = "no_sub_features"
    /\ pc' = "done"

\* lines 75-91 raise (KeyError), caught at line 163
StartParseError ==
    /\ BeginRun
    /\ sub_features_txt # NoFile
    /\ ParseOutline(sub_features_txt).err
    /\ sub_features_map' = <<>>
    /\ mi' = 0
    /\ result' = "error"
    /\ pc' = "done"

\* lines 75-91: the outline is parsed
StartParsed ==
    /\ BeginRun
    /\ sub_features_txt # NoFile
    /\ ~ParseOutline(sub_features_txt).err
    /\ sub_features_map' = ParseOutline(sub_features_txt).map
    /\ mi' = 1
    /\ result' = "running"
    /\ pc' = "main"

\* variant: a missing detail file ends the stage with a result string
MainNoFile_Abort ==
    /\ pc = "main"
    /\ mi <= Len(sub_features_map)
    /\ ~Exists(fs, MainFile(SafeMain))
    /\ result' = "no_main_file"
    /\ pc' = "done"
    /\ UNCHANGED <<sub_features_txt, fs, fs0, run, sub_features_map, mi,
                   main_feature_text, feature_blocks, bi, feature_details,
                   outcomes, infer_log, prev>>
    /\ UNCHANGED otherVars

\* lines 103-105: the main feature has no detail file
MainNoFile ==
    /\ pc = "main"
    /\ mi <= Len(sub_features_map)
    /\ ~Exists(fs, MainFile(SafeMain))
    /\ mi' = mi + 1
    /\ UNCHANGED <<sub_features_txt, fs, fs0, pc, run, sub_features_map,
                   main_feature_text, feature_blocks, bi, feature_details,
                   outcomes, infer_log, result, prev>>
    /\ UNCHANGED otherVars

\* lines 107-112: the main feature has no sub-feature lines
MainNoSubFeatures ==
    /\ pc = "main"
    /\ mi <= Len(sub_features_map)
    /\ Exists(fs, MainFile(SafeMain))
    /\ CurSubFeatures = <<>>
    /\ main_feature_text' = fs[MainFile(SafeMain)]
    /\ mi' = mi + 1
    /\ UNCHANGED <<sub_features_txt, fs, fs0, pc, run, sub_features_map,
                   feature_blocks, bi, feature_details, outcomes, infer_log,
                   result, prev>>
    /\ UNCHANGED otherVars

\* lines 107-124: read the main feature's detail, group its blocks
MainEnter ==
    /\ pc = "main"
    /\ mi <= Len(sub_features_map)
    /\ Exists(fs, MainFile(SafeMain))
    /\ CurSubFeatures # <<>>
    /\ main_feature_text' = fs[MainFile(SafeMain)]
    /\ feature_blocks' = GroupBlocks(CurSubFeatures)
    /\ bi' = 1
    /\ pc' = "block"
    /\ UNCHANGED <<sub_features_txt, fs, fs0, run, sub_features_map, mi,
                   feature_details, outcomes, infer_log, result, prev>>
    /\ UNCHANGED otherVars

\* line 129: the blocks of this main feature are exhausted
BlocksDone ==
    /\ pc = "block"
    /\ bi > Len(feature_blocks)
    /\ mi' = mi + 1
    /\ pc' = "main"
    /\ UNCHANGED <<sub_features_txt, fs, fs0, run, sub_features_map,
                   main_feature_text, feature_blocks, bi, feature_details,
                   outcomes, infer_log, result, prev>>
    /\ UNCHANGED otherVars

\* variant: a block whose file exists is detailed again
BlockSkip_Rewrite ==
    /\ pc = "block"
    /\ bi <= Len(feature_blocks)
    /\ Exists(fs, CurPath)
    /\ infer_log' = Append(infer_log, CurPath)
    /\ pc' = "infer"
    /\ UNCHANGED <<sub_features_txt, fs, fs0, run, sub_features_map, mi,
                   main_feature_text, feature_blocks, bi, feature_details,
                   outcomes, result, prev>>
    /\ UNCHANGED otherVars

\* lines 130-137: the block's file exists, skip it
BlockSkip ==
    /\ pc = "block"
    /\ bi <= Len(feature_blocks)
    /\ Exists(fs, CurPath)
    /\ outcomes' = Append(outcomes, Outcome("Skipped"))
    /\ bi' = bi + 1
    /\ UNCHANGED <<sub_features_txt, fs, fs0, pc, run, sub_features_map, mi,
                   main_feature_text, feature_blocks, feature_details,
                   infer_log, result, prev>>
    /\ UNCHANGED otherVars

\* variant: the inference call is started and not awaited, the loop goes on
BlockInfer_NoAwait ==
    /\ pc = "block"
    /\ bi <= Len(feature_blocks)
    /\ ~Exists(fs, CurPath)
    /\ infer_log' = Append(infer_log, CurPath)
    /\ bi' = bi + 1
    /\ UNCHANGED <<sub_features_txt, fs, fs0, pc, run, sub_features_map, mi,
                   main_feature_text, feature_blocks, feature_details,
                   outcomes, result, prev>>
    /\ UNCHANGED otherVars

\* variant: the block's file is opened before the inference call
BlockInfer_OpenFirst ==
    /\ pc = "block"
    /\ bi <= Len(feature_blocks)
    /\ ~Exists(fs, CurPath)
    /\ infer_log' = Append(infer_log, CurPath)
    /\ fs' = (CurPath :> <<>>) @@ fs
    /\ pc' = "infer"
    /\ UNCHANGED <<sub_features_txt, fs0, run, sub_features_map, mi,
                   main_feature_text, feature_blocks, bi, feature_details,
                   outcomes, result, prev>>
    /\ UNCHANGED otherVars

\* lines 130-145: no file yet, the inference call is made and awaited
BlockInfer ==
    /\ pc = "block"
    /\ bi <= Len(feature_blocks)
    /\ ~Exists(fs, CurPath)
    /\ infer_log' = Append(infer_log, CurPath)
    /\ pc' = "infer"
    /\ UNCHANGED <<sub_features_txt, fs, fs0, run, sub_features_map, mi,
                   main_feature_text, feature_blocks, bi, feature_details,
                   outcomes, result, prev>>
    /\ UNCHANGED otherVars

\* variant: the exception of the inference call reaches line 163
InferRaise_Abort ==
    /\ pc = "infer"
    /\ outcomes' = Append(outcomes, Outcome("Failed"))
    /\ result' = "error"
    /\ pc' = "done"
    /\ UNCHANGED <<sub_features_txt, fs, fs0, run, sub_features_map, mi,
                   main_feature_text, feature_blocks, bi, feature_details,
                   infer_log, prev>>
    /\ UNCHANGED otherVars

\* lines 145, 156-159: the inference call raises
InferRaise ==
    /\ pc = "infer"
    /\ outcomes' = Append(outcomes, Outcome("Failed"))
    /\ bi' = bi + 1
    /\ pc' = "block"
    /\ UNCHANGED <<sub_features_txt, fs, fs0, run, sub_features_map, mi,
                   main_feature_text, feature_blocks, feature_details,
                   infer_log, result, prev>>
    /\ UNCHANGED otherVars

\* lines 145-148: the inference call returns, open(sub_file, "w") creates
\* the empty file
InferReturn ==
    /\ pc = "infer"
    /\ \E details \in InferOutputs : feature_details' = <<details>>
    /\ fs' = (CurPath :> <<>>) @@ fs
    /\ pc' = "write"
    /\ UNCHANGED <<sub_features_txt, fs0, run, sub_features_map, mi,
                   main_feature_text, feature_blocks, bi, outcomes, infer_log,
                   result, prev>>
    /\ UNCHANGED otherVars

\* lines 149-154: the four f.write calls fill the buffer of the file
\* object, leaving the with block closes the file and the content is on disk
WriteClose ==
    /\ pc = "write"
    /\ fs' = [fs EXCEPT ![CurPath] =
                SubFileParts(CurMain, CurBlock, feature_details[1])]
    /\ feature_details' = <<>>
    /\ outcomes' = Append(outcomes, Outcome("Written"))
    /\ bi' = bi + 1
    /\ pc' = "block"
    /\ UNCHANGED <<sub_features_txt, fs0, run, sub_features_map, mi,
                   main_feature_text, feature_blocks, infer_log, result, prev>>
    /\ UNCHANGED otherVars

\* line 161: every main feature was visited
Return ==
    /\ pc = "main"
    /\ mi > Len(sub_features_map)
    /\ result' = "created"
    /\ pc' = "done"
    /\ UNCHANGED <<sub_features_txt, fs, fs0, run, sub_features_map, mi,
                   main_feature_text, feature_blocks, bi, feature_details,
                   outcomes, infer_log, prev>>
    /\ UNCHANGED otherVars

\* the memory of a killed process is lost
MemoryLost ==
    /\ pc' = "crashed"
    /\ sub_features_map' = <<>>
    /\ mi' = 0
    /\ main_feature_text' = <<>>
    /\ feature_blocks' = <<>>
    /\ bi' = 0
    /\ feature_details' = <<>>
    /\ outcomes' = <<>>
    /\ infer_log' = <<>>
    /\ result' = "killed"
    /\ UNCHANGED <<sub_features_txt, fs0, run, prev>>
    /\ UNCHANGED otherVars

\* the process is killed while no file is open: the files stay as they are
Kill ==
    /\ pc \in {"main", "block", "infer"}
    /\ run < MaxRuns
    /\ fs' = fs
    /\ MemoryLost

\* the process is killed between open (line 148) and close: the file exists
\* and holds what had left the buffer of the file object, either nothing or
\* the three short parts written before the detail text
KillWhileWriting ==
    /\ pc = "write"
    /\ run < MaxRuns
    /\ \E k \in {0, 3} :
          fs' = [fs EXCEPT ![CurPath] =
                    SubSeq(SubFileParts(CurMain, CurBlock, feature_details[1]),
                           1, k)]
    /\ MemoryLost

-----------------------------------------------------------------------------
(* Inputs                                                                  *)

\* the lines an outline is drawn from
Line_MainA == <<"1", ")", " ", "A">>
Line_MainB == <<"2", ")", " ", "B">>
Line_x == <<"-", " ", "x">>
Line_X == <<"-", " ", "X">>
Line_y == <<" ", " ", " ", "-", " ", "y">>
Line_z == <<"-", " ", "z">>
Line_Maina == <<"2", ")", " ", "a">>
Line_A == <<"-", " ", "A">>

DriverLines == {Line_MainA, Line_MainB, Line_x, Line_y}

\* the text of a file holding the given lines
RECURSIVE TextOf(_)
TextOf(ls) == IF ls = <<>> THEN <<>> ELSE ls[1] \o <<NL>> \o TextOf(Tail(ls))

SeqsUpTo(S, n) == UNION {[1..k -> S] : k \in 0..n}

DriverTexts == {TextOf(ls) : ls \in SeqsUpTo(DriverLines, MaxLines)}

\* one main feature with three first-level bullets: three distinct titles,
\* and a third title that differs from the first in letter case only; two
\* main features whose titles differ in letter case only; a bullet that
\* repeats the title of its main feature
ScenarioTexts ==
    { TextOf(<<Line_MainA, Line_x, Line_y, Line_z>>),
      TextOf(<<Line_MainA, Line_x, Line_y, Line_X>>),
      TextOf(<<Line_MainA, Line_x, Line_Maina, Line_x>>),
      TextOf(<<Line_MainA, Line_A, Line_x>>) }

\* the folders of the main features an outline names
MainSlugs(text) ==
    IF text = NoFile THEN {}
    ELSE {Slugify(MainTitle(l)) :
             l \in {l \in Range(ReadLines(text)) : IsMainLine(l)}}

InitialFiles(S) == [p \in {MainFile(s) : s \in S} |-> MainDetailContent(p[1])]

\* no title is being sanitized
SlugIdle == feature = <<>> /\ safe_feature = <<>>

\* the main-feature detail stage at rest
MainIdle ==
    /\ database = "missing"
    /\ main_features_txt = NoFile
    /\ main_features = <<>>
    /\ fi = 0
    /\ completed_features = {}

\* no session of the manager
PipeIdle == cwd_record = FALSE /\ stage_log = <<>>

Init ==
    /\ sub_features_txt \in DriverTexts \cup ScenarioTexts \cup {NoFile}
    /\ fs \in {InitialFiles(S) : S \in SUBSET MainSlugs(sub_features_txt)}
    /\ fs0 = fs
    /\ pc = "idle"
    /\ run = 0
    /\ sub_features_map = <<>>
    /\ mi = 0
    /\ main_feature_text = <<>>
    /\ feature_blocks = <<>>
    /\ bi = 0
    /\ feature_details = <<>>
    /\ outcomes = <<>>
    /\ infer_log = <<>>
    /\ result = "none"
    /\ prev = [completed |-> FALSE, outcomes |-> <<>>, result |-> "none"]
    /\ SlugIdle
    /\ MainIdle
    /\ PipeIdle

Next ==
    \/ StartNoFile
    \/ StartParseError
    \/ StartParsed
    \/ MainNoFile
    \/ MainNoSubFeatures
    \/ MainEnter
    \/ BlocksDone
    \/ BlockSkip
    \/ BlockInfer
    \/ InferRaise
    \/ InferReturn
    \/ WriteClose
    \/ Return
    \/ Kill
    \/ KillWhileWriting

Spec == Init /\ [][Next]_vars

TypeOK ==
    /\ pc \in {"idle", "main", "block", "infer", "write", "done", "crashed",
              "parsed", "grouped", "slugged", "recased", "reslugged",
              "session", "feature", "minfer", "mwrite", "sfeature",
              "sinfer"}
    /\ run \in 0..MaxRuns

-----------------------------------------------------------------------------
(* The parser and the block grouping applied to bounded outlines           *)

ParseMaxLines == 4

Line_MainA3 == <<"3", ")", " ", "A">>
Line_nested3 == <<" ", " ", " ", "-", "-", " ", "n">>
Line_nested4 == <<" ", " ", " ", " ", "-", " ", "d">>
Line_glyph == <<BulletGlyph, " ", "g">>
Line_ndash == <<" ", EnDash, " ", "e">>
Line_tab == <<"\t", "-", " ", "t">>
Line_blank == <<>>
Line_header == <<"H", "d", "r", ":">>

ParseLines == {Line_MainA, Line_MainB, Line_MainA3, Line_x, Line_nested3,
               Line_nested4, Line_glyph, Line_ndash, Line_tab, Line_blank,
               Line_header}

\* the two outlines the specification gives as examples
T_Login == <<"L","o","g","i","n">>
T_EmailLogin == <<"E","m","a","i","l"," ","l","o","g","i","n">>
T_PasswordHashing ==
    <<"p","a","s","s","w","o","r","d"," ","h","a","s","h","i","n","g">>
T_SocialLogin == <<"S","o","c","i","a","l"," ","l","o","g","i","n">>
T_Auth == <<"A","u","t","h">>
T_Billing == <<"B","i","l","l","i","n","g">>
T_login == <<"l","o","g","i","n">>
T_oauth == <<"o","a","u","t","h">>
T_invoice == <<"i","n","v","o","i","c","e">>

ExampleLogin ==
    TextOf(<< <<"1", ")", " ">> \o T_Login,
              <<"-", " ">> \o T_EmailLogin,
              <<" ", " ", " ", "-", "-", " ">> \o T_PasswordHashing,
              <<"-", " ">> \o T_SocialLogin >>)

ExampleAuth ==
    TextOf(<< <<"1", ")", " ">> \o T_Auth,
              <<"-", " ">> \o T_login,
              <<" ", " ", "-", "-", " ">> \o T_oauth,
              <<"2", ")", " ">> \o T_Billing,
              <<"-", " ">> \o T_invoice >>)

ParseTexts ==
    {TextOf(ls) : ls \in SeqsUpTo(ParseLines, ParseMaxLines)}
        \cup {ExampleLogin, ExampleAuth}

InitParse ==
    /\ sub_features_txt \in ParseTexts
    /\ fs = InitialFiles({})
    /\ fs0 = fs
    /\ pc = "idle"
    /\ run = 0
    /\ sub_features_map = <<>>
    /\ mi = 0
    /\ main_feature_text = <<>>
    /\ feature_blocks = <<>>
    /\ bi = 0
    /\ feature_details = <<>>
    /\ outcomes = <<>>
    /\ infer_log = <<>>
    /\ result = "none"
    /\ prev = [completed |-> FALSE, outcomes |-> <<>>, result |-> "none"]
    /\ SlugIdle
    /\ MainIdle
    /\ PipeIdle

\* lines 75-91 applied to the text
ParseStep ==
    /\ pc = "idle"
    /\ sub_features_map' = ParseOutline(sub_features_txt).map
    /\ result' = IF ParseOutline(sub_features_txt).err THEN "error"
                                                       ELSE "parsed"
    /\ mi' = 1
    /\ pc' = "parsed"
    /\ UNCHANGED <<sub_features_txt, fs, fs0, run, main_feature_text,
                   feature_blocks, bi, feature_details, outcomes, infer_log,
                   prev>>
    /\ UNCHANGED otherVars

\* lines 115-124 applied to the children of the next main feature
GroupStep ==
    /\ pc = "parsed"
    /\ mi <= Len(sub_features_map)
    /\ feature_blocks' = GroupBlocks(CurSubFeatures)
    /\ pc' = "grouped"
    /\ UNCHANGED <<sub_features_txt, fs, fs0, run, sub_features_map, mi,
                   main_feature_text, bi, feature_details, outcomes,
                   infer_log, result, prev>>
    /\ UNCHANGED otherVars

\* on to the next item of sub_features_map
NextMainStep ==
    /\ pc = "grouped"
    /\ mi' = mi + 1
    /\ feature_blocks' = <<>>
    /\ pc' = "parsed"
    /\ UNCHANGED <<sub_features_txt, fs, fs0, run, sub_features_map,
                   main_feature_text, bi, feature_details, outcomes,
                   infer_log, result, prev>>
    /\ UNCHANGED otherVars

NextParse ==
    \/ ParseStep
    \/ GroupStep
    \/ NextMainStep

SpecParse == InitParse /\ [][NextParse]_vars

-----------------------------------------------------------------------------
(* The file-name sanitizer applied to bounded titles                       *)

MaxTitleLen == 3

\* the sub-feature detail stage at rest, nothing read and nothing run
DriverIdle ==
    /\ sub_features_txt = NoFile
    /\ fs = InitialFiles({})
    /\ fs0 = fs
    /\ run = 0
    /\ sub_features_map = <<>>
    /\ mi = 0
    /\ main_feature_text = <<>>
    /\ feature_blocks = <<>>
    /\ bi = 0
    /\ feature_details = <<>>
    /\ outcomes = <<>>
    /\ infer_log = <<>>
    /\ result = "none"
    /\ prev = [completed |-> FALSE, outcomes |-> <<>>, result |-> "none"]

driverData == <<sub_features_txt, fs, fs0, run, sub_features_map, mi,
                main_feature_text, feature_blocks, bi, feature_details,
                outcomes, infer_log, result, prev>>

\* titles over upper and lower case letters, a digit, the two characters
\* the sanitizer keeps, a space and a character outside ASCII
SlugTitles ==
    SeqsUpTo({"A", "a", "Z", "9", "_", "-", " ", EnDash}, MaxTitleLen)

InitSlug ==
    /\ feature \in SlugTitles
    /\ safe_feature = <<>>
    /\ pc = "idle"
    /\ DriverIdle
    /\ MainIdle
    /\ PipeIdle

\* safe_feature = re.sub(r'[^a-zA-Z0-9_-]', '_', feature.lower())
SlugStep ==
    /\ pc = "idle"
    /\ safe_feature' = Slugify(feature)
    /\ pc' = "slugged"
    /\ UNCHANGED <<feature, driverData, mainVars, pipeVars>>

\* the titles that differ from the given one in letter case only
RECURSIVE Recased(_)
Recased(title) ==
    IF title = <<>> THEN {<<>>}
    ELSE LET c == Head(title)
             both == {c} \cup {UpperSeq[k] : k \in {k \in 1..26 : LowerSeq[k] = c}}
                         \cup {LowerSeq[k] : k \in {k \in 1..26 : UpperSeq[k] = c}}
         IN {<<d>> \o rest : d \in both, rest \in Recased(Tail(title))}

\* the same substitution for a title that differs in letter case only
RecaseStep ==
    /\ pc = "slugged"
    /\ \E t \in Recased(feature) \ {feature} :
          /\ feature' = t
          /\ safe_feature' = Slugify(t)
    /\ pc' = "recased"
    /\ UNCHANGED <<driverData, mainVars, pipeVars>>

\* the same substitution applied to a sanitized title
ReSlugStep ==
    /\ pc = "slugged"
    /\ feature' = safe_feature
    /\ safe_feature' = Slugify(safe_feature)
    /\ pc' = "reslugged"
    /\ UNCHANGED <<driverData, mainVars, pipeVars>>

NextSlug ==
    \/ SlugStep
    \/ RecaseStep
    \/ ReSlugStep

SpecSlug == InitSlug /\ [][NextSlug]_vars

-----------------------------------------------------------------------------
(* The main-feature detail stage: extract_main_features_details            *)
(* (src/Main_Feature_Detailed_Agent.py)                                    *)

MaxFeatures == 3

\* f.readlines(): the lines, each with its line end
RECURSIVE ReadLinesKeepEnds(_)
ReadLinesKeepEnds(text) ==
    IF text = <<>> THEN <<>>
    ELSE IF FirstIndex(text, NL) = 0 THEN <<text>>
    ELSE <<SubSeq(text, 1, FirstIndex(text, NL))>>
             \o ReadLinesKeepEnds(AfterFirst(text, NL))

\* [line.strip("- ").strip() for line in lines if line.startswith("- ")]
MainFeaturesOf(text) ==
    LET kept == SelectSeq(ReadLinesKeepEnds(text),
                          LAMBDA l : Len(l) >= 2 /\ l[1] = "-" /\ l[2] = " ")
    IN [i \in 1..Len(kept) |->
           Strip(RStrip(LStrip(kept[i], {"-", " "}), {"-", " "}))]

\* the three f.write calls of a main feature's detail file
MainFileParts(title, details) ==
    << [tag |-> "Main Feature", arg |-> title],
       [tag |-> "=", arg |-> [i \in 1..(15 + Len(title)) |-> "="]],
       [tag |-> "details", arg |-> details] >>

\* main_features.txt: a header line and "- <title>" lines, two of the
\* titles differing in letter case only
MainTexts ==
    {TextOf(ls) :
        ls \in SeqsUpTo({Line_header, Line_x, Line_X, Line_z}, MaxFeatures)}

InitMain ==
    /\ database \in {"missing", "no_meeting", "no_text", "ok"}
    /\ main_features_txt \in MainTexts \cup {NoFile}
    /\ fs \in {InitialFiles(S) :
                 S \in SUBSET (IF main_features_txt = NoFile THEN {}
                               ELSE {Slugify(t) :
                                       t \in Range(MainFeaturesOf(
                                                       main_features_txt))})}
    /\ fs0 = fs
    /\ pc = "idle"
    /\ run = 0
    /\ main_features = <<>>
    /\ fi = 0
    /\ completed_features = {}
    /\ sub_features_txt = NoFile
    /\ sub_features_map = <<>>
    /\ mi = 0
    /\ main_feature_text = <<>>
    /\ feature_blocks = <<>>
    /\ bi = 0
    /\ feature_details = <<>>
    /\ outcomes = <<>>
    /\ infer_log = <<>>
    /\ result = "none"
    /\ prev = [completed |-> FALSE, outcomes |-> <<>>, result |-> "none"]
    /\ SlugIdle
    /\ PipeIdle

\* what the main-feature detail stage leaves alone
mainRest == <<sub_features_txt, sub_features_map, mi, main_feature_text,
              feature_blocks, bi, database, main_features_txt,
              completed_features, slugVars, pipeVars>>

CurFeature == main_features[fi]
CurFeaturePath == MainFile(Slugify(CurFeature))

MainOutcome(kind) ==
    [mf |-> CurFeature, title |-> CurFeature, path |-> CurFeaturePath,
     kind |-> kind]

\* lines 68-83: the result of the early returns, "none" when none is taken;
\* a missing database.json raises at line 68 and is caught at line 119
EarlyResult ==
    IF database = "missing" THEN "error"
    ELSE IF database = "no_meeting" THEN "no_meeting"
    ELSE IF database = "no_text" THEN "no_text"
    ELSE IF main_features_txt = NoFile THEN "no_main_features"
    ELSE "none"

\* a call of the tool starts
BeginMainRun ==
    /\ pc \in {"idle", "done"}
    /\ run < MaxRuns
    /\ run' = run + 1
    /\ fs0' = fs
    /\ prev' = [completed |-> pc = "done", outcomes |-> outcomes,
                result |-> result]
    /\ outcomes' = <<>>
    /\ infer_log' = <<>>
    /\ feature_details' = <<>>
    /\ UNCHANGED <<fs, mainRest>>

\* lines 60-83, 119-120: the stage returns before reading any feature
DetailMainReturnEarly ==
    /\ BeginMainRun
    /\ EarlyResult # "none"
    /\ main_features' = <<>>
    /\ fi' = 0
    /\ result' = EarlyResult
    /\ pc' = "done"

\* lines 60-89: the titles are read from main_features.txt
DetailMainParsed ==
    /\ BeginMainRun
    /\ EarlyResult = "none"
    /\ main_features' = MainFeaturesOf(main_features_txt)
    /\ fi' = 1
    /\ result' = "running"
    /\ pc' = "feature"

\* lines 94-105: the next feature; its folder is made and the inference
\* call is made and awaited, whether or not its detail file exists
FeatureInfer ==
    /\ pc = "feature"
    /\ fi <= Len(main_features)
    /\ infer_log' = Append(infer_log, CurFeaturePath)
    /\ pc' = "minfer"
    /\ UNCHANGED <<fs, fs0, run, main_features, fi, feature_details, outcomes,
                   result, prev, mainRest>>

\* lines 105, 119-120: the inference call raises; the only handler is the
\* one around the whole body, which returns the [ERROR] string
FeatureInferRaise ==
    /\ pc = "minfer"
    /\ outcomes' = Append(outcomes, MainOutcome("Failed"))
    /\ result' = "error"
    /\ pc' = "done"
    /\ UNCHANGED <<fs, fs0, run, main_features, fi, feature_details,
                   infer_log, prev, mainRest>>

\* lines 105-110: the inference call returns, open(file_path, "w") creates
\* the file or empties the one that is there
FeatureInferReturn ==
    /\ pc = "minfer"
    /\ \E details \in InferOutputs : feature_details' = <<details>>
    /\ fs' = (CurFeaturePath :> <<>>) @@ fs
    /\ pc' = "mwrite"
    /\ UNCHANGED <<fs0, run, main_features, fi, outcomes, infer_log, result,
                   prev, mainRest>>

\* lines 111-115: the three f.write calls, the file is closed
FeatureWriteClose ==
    /\ pc = "mwrite"
    /\ fs' = [fs EXCEPT ![CurFeaturePath] =
                MainFileParts(CurFeature, feature_details[1])]
    /\ feature_details' = <<>>
    /\ outcomes' = Append(outcomes, MainOutcome("Written"))
    /\ fi' = fi + 1
    /\ pc' = "feature"
    /\ UNCHANGED <<fs0, run, main_features, infer_log, result, prev,
                   mainRest>>

\* line 117: every feature was processed
DetailMainReturn ==
    /\ pc = "feature"
    /\ fi > Len(main_features)
    /\ result' = "created"
    /\ pc' = "done"
    /\ UNCHANGED <<fs, fs0, run, main_features, fi, feature_details, outcomes,
                   infer_log, prev, mainRest>>

NextMain ==
    \/ DetailMainReturnEarly
    \/ DetailMainParsed
    \/ FeatureInfer
    \/ FeatureInferRaise
    \/ FeatureInferReturn
    \/ FeatureWriteClose
    \/ DetailMainReturn

SpecMain == InitMain /\ [][NextMain]_vars

-----------------------------------------------------------------------------
(* The outline extraction stage: extract_sub_features                      *)
(* (src/Extract_Sub_Features_Agent.py)                                     *)

\* feature in content, for two str
Contains(content, sub) ==
    \E i \in 1..(Len(content) - Len(sub) + 1) :
        SubSeq(content, i, i + Len(sub) - 1) = sub

\* "Extracted Hierarchical Features:\n\n"
SubHeader ==
    <<"E","x","t","r","a","c","t","e","d"," ","H","i","e","r","a","r","c",
      "h","i","c","a","l"," ","F","e","a","t","u","r","e","s",":", NL, NL>>

\* f"{idx}) {main_feature}"
NumberedTitle(idx, main_feature) ==
    <<(<<"0","1","2","3","4","5","6","7","8","9">>)[idx + 1], ")", " ">>
        \o main_feature

\* what the inference collaborator may return as HierarchicalFeatures.features:
\* nothing, the numbered title with a child line, or a child line only
SubOutlines(idx, main_feature) ==
    { <<>>,
      <<NumberedTitle(idx, main_feature), <<" ", " ", " ", "-", " ", "s">>>>,
      << <<"-", " ", "s">> >> }

\* lines 137-141: the text written for a feature
AppendedText(idx, main_feature, features) ==
    IF features # <<>>
    THEN JoinNL(features) \o <<NL, NL>>
    ELSE NumberedTitle(idx, main_feature) \o <<NL, NL>>

\* lines 88-94: the titles that occur somewhere in sub_features.txt
CompletedFeatures(titles, content) ==
    IF content = NoFile THEN {}
    ELSE {t \in Range(titles) : Contains(content, t)}

\* lines 113-114: the detail file Extract-Sub reads for the feature
FeatureFile == MainFile(Slugify(CurFeature))

Line_L == <<"-", " ", "L">>
Line_SL == <<"-", " ", "S", "L">>

\* main_features.txt: a header line and "- <title>" lines, one title being
\* the end of another
SubTexts ==
    {TextOf(ls) :
        ls \in SeqsUpTo({Line_header, Line_SL, Line_L, Line_z}, MaxFeatures)}

InitSub ==
    /\ main_features_txt \in SubTexts \cup {NoFile}
    /\ fs \in {InitialFiles(S) :
                 S \in SUBSET (IF main_features_txt = NoFile THEN {}
                               ELSE {Slugify(t) :
                                       t \in Range(MainFeaturesOf(
                                                       main_features_txt))})}
    /\ fs0 = fs
    /\ sub_features_txt = NoFile
    /\ pc = "idle"
    /\ run = 0
    /\ database = "ok"
    /\ main_features = <<>>
    /\ fi = 0
    /\ completed_features = {}
    /\ sub_features_map = <<>>
    /\ mi = 0
    /\ main_feature_text = <<>>
    /\ feature_blocks = <<>>
    /\ bi = 0
    /\ feature_details = <<>>
    /\ outcomes = <<>>
    /\ infer_log = <<>>
    /\ result = "none"
    /\ prev = [completed |-> FALSE, outcomes |-> <<>>, result |-> "none"]
    /\ SlugIdle
    /\ PipeIdle

\* what the outline extraction stage leaves alone
subRest == <<fs, sub_features_map, mi, main_feature_text, feature_blocks, bi,
             feature_details, database, main_features_txt, slugVars,
             pipeVars>>

\* a call of the tool starts; prev.outcomes collects what the earlier calls
\* did to each feature
BeginSubRun ==
    /\ pc \in {"idle", "done", "crashed"}
    /\ run < MaxRuns
    /\ run' = run + 1
    /\ fs0' = fs
    /\ prev' = [completed |-> pc = "done",
                outcomes |-> prev.outcomes \o outcomes,
                result |-> result]
    /\ outcomes' = <<>>
    /\ infer_log' = <<>>
    /\ UNCHANGED subRest

\* lines 76-77: main_features.txt is missing
ExtractSubNoFile ==
    /\ BeginSubRun
    /\ main_features_txt = NoFile
    /\ main_features' = <<>>
    /\ completed_features' = {}
    /\ fi' = 0
    /\ result' = "no_main_features"
    /\ pc' = "done"
    /\ UNCHANGED sub_features_txt

\* lines 79-101: the titles are read, the completed ones are looked up in
\* sub_features.txt, the file is opened for appending (and so created) and
\* gets its header when it is empty
ExtractSubParsed ==
    /\ BeginSubRun
    /\ main_features_txt # NoFile
    /\ main_features' = MainFeaturesOf(main_features_txt)
    /\ completed_features' =
          CompletedFeatures(MainFeaturesOf(main_features_txt),
                            sub_features_txt)
    /\ sub_features_txt' = IF sub_features_txt \in {NoFile, <<>>}
                           THEN SubHeader
                           ELSE sub_features_txt
    /\ fi' = 1
    /\ result' = "running"
    /\ pc' = "sfeature"

\* lines 104-106: the feature counts as completed
SubFeatureSkip ==
    /\ pc = "sfeature"
    /\ fi <= Len(main_features)
    /\ CurFeature \in completed_features
    /\ outcomes' = Append(outcomes, MainOutcome("Skipped"))
    /\ fi' = fi + 1
    /\ UNCHANGED <<sub_features_txt, fs0, pc, run, main_features,
                   completed_features, infer_log, result, prev, subRest>>

\* lines 113-118: the feature has no detail file
SubFeatureNoFile ==
    /\ pc = "sfeature"
    /\ fi <= Len(main_features)
    /\ CurFeature \notin completed_features
    /\ ~Exists(fs, FeatureFile)
    /\ outcomes' = Append(outcomes, MainOutcome("Missing"))
    /\ fi' = fi + 1
    /\ UNCHANGED <<sub_features_txt, fs0, pc, run, main_features,
                   completed_features, infer_log, result, prev, subRest>>

\* lines 113-135: the detail file is read, the inference call is made and
\* awaited
SubFeatureInfer ==
    /\ pc = "sfeature"
    /\ fi <= Len(main_features)
    /\ CurFeature \notin completed_features
    /\ Exists(fs, FeatureFile)
    /\ infer_log' = Append(infer_log, FeatureFile)
    /\ pc' = "sinfer"
    /\ UNCHANGED <<sub_features_txt, fs0, run, main_features, fi,
                   completed_features, outcomes, result, prev, subRest>>

\* lines 135, 149-150: the inference call raises; the with block closes
\* sub_features.txt, the handler around the whole body returns [ERROR]
SubInferRaise ==
    /\ pc = "sinfer"
    /\ outcomes' = Append(outcomes, MainOutcome("Failed"))
    /\ result' = "error"
    /\ pc' = "done"
    /\ UNCHANGED <<sub_features_txt, fs0, run, main_features, fi,
                   completed_features, infer_log, prev, subRest>>

\* lines 135-144: the inference call returns, the outline (or the numbered
\* title when there is none) is appended and flushed
SubInferReturn ==
    /\ pc = "sinfer"
    /\ \E features \in SubOutlines(fi, CurFeature) :
          sub_features_txt' =
              sub_features_txt \o AppendedText(fi, CurFeature, features)
    /\ outcomes' = Append(outcomes, MainOutcome("Written"))
    /\ fi' = fi + 1
    /\ pc' = "sfeature"
    /\ UNCHANGED <<fs0, run, main_features, completed_features, infer_log,
                   result, prev, subRest>>

\* lines 146-147: every feature was visited
ExtractSubReturn ==
    /\ pc = "sfeature"
    /\ fi > Len(main_features)
    /\ result' = "created"
    /\ pc' = "done"
    /\ UNCHANGED <<sub_features_txt, fs0, run, main_features, fi,
                   completed_features, outcomes, infer_log, prev, subRest>>

\* the process is killed: what was flushed stays in sub_features.txt, the
\* memory is lost
SubKill ==
    /\ pc \in {"sfeature", "sinfer"}
    /\ run < MaxRuns
    /\ pc' = "crashed"
    /\ main_features' = <<>>
    /\ fi' = 0
    /\ completed_features' = {}
    /\ result' = "killed"
    /\ UNCHANGED <<sub_features_txt, fs0, run, outcomes, infer_log, prev,
                   subRest>>

NextSub ==
    \/ ExtractSubNoFile
    \/ ExtractSubParsed
    \/ SubFeatureSkip
    \/ SubFeatureNoFile
    \/ SubFeatureInfer
    \/ SubInferRaise
    \/ SubInferReturn
    \/ ExtractSubReturn
    \/ SubKill

SpecSub == InitSub /\ [][NextSub]_vars

-----------------------------------------------------------------------------
(* The manager and its six tools (src/manager_agent.py)                    *)
(*                                                                         *)
(* A tool is called when the manager's language model asks for it; the     *)
(* code registers the six tools and leaves the choice to the model.  Here  *)
(* a stage is its call and what comes back to the manager; the files a     *)
(* stage reads and writes are modelled with the stage itself.              *)

MaxCalls == 3

\* the order the system prompt of the manager asks for
StageOrder ==
    <<"save_meeting", "summarize_meeting", "extract_main",
      "extract_main_details", "extract_sub", "extract_sub_details">>

InitPipe ==
    /\ pc = "session"
    /\ cwd_record = FALSE
    /\ stage_log = <<>>
    /\ database \in {"missing", "ok"}
    /\ main_features_txt = NoFile
    /\ main_features = <<>>
    /\ fi = 0
    /\ completed_features = {}
    /\ DriverIdle
    /\ SlugIdle

\* a tool runs and its result, or the exception it lets through, reaches
\* manager_agent.run; main() catches nothing, an exception ends the process
ToolCall(stage, out, text) ==
    /\ pc = "session"
    /\ Len(stage_log) < MaxCalls
    /\ stage_log' = Append(stage_log,
                           [stage |-> stage, out |-> out, text |-> text])
    /\ pc' = IF out = "raised" THEN "crashed" ELSE "session"
    /\ UNCHANGED <<driverData, slugVars, main_features_txt, main_features, fi,
                   completed_features>>

\* save_transcript: what it returns or raises, and where the record is
\* afterwards (./database.json, or <folder>/database.json once moved)
SaveTranscript(file_exists, has_record, naming_raises, move_ok, db) ==
    IF ~file_exists
    THEN [out |-> "string", text |-> "[ERROR] File not found",
          cwd_record |-> has_record, database |-> db]
    ELSE IF has_record
    THEN [out |-> "string", text |-> "Transcript saved",
          cwd_record |-> TRUE, database |-> db]
    ELSE IF naming_raises
    THEN [out |-> "raised", text |-> "naming_tool_agent.run",
          cwd_record |-> FALSE, database |-> db]
    ELSE IF move_ok
    THEN [out |-> "string", text |-> "Transcript saved",
          cwd_record |-> FALSE, database |-> "ok"]
    ELSE [out |-> "string", text |-> "Transcript saved",
          cwd_record |-> TRUE, database |-> db]

\* tool 1: save_meeting awaits save_transcript, no try around it
SaveMeeting ==
    \E file_exists, naming_raises, move_ok \in BOOLEAN :
        LET r == SaveTranscript(file_exists, cwd_record, naming_raises,
                                move_ok, database)
        IN /\ ToolCall("save_meeting", r.out, r.text)
           /\ cwd_record' = r.cwd_record
           /\ database' = r.database

\* tool 2: summarize_meeting calls generate_meeting_summary(ctx,
\* meeting_name, file_path); the function takes (ctx, meeting_name), so the
\* call itself raises TypeError, which nothing catches
SummarizeMeeting ==
    /\ ToolCall("summarize_meeting", "raised", "TypeError")
    /\ UNCHANGED <<cwd_record, database>>

\* tool 3: extract_main awaits extract_main_features, which returns a
\* result string also when it fails
ExtractMain ==
    /\ \E text \in {"[ERROR]", "[DEBUG]", "ok"} :
          ToolCall("extract_main", "string", text)
    /\ UNCHANGED <<cwd_record, database>>

\* tool 4: extract_main_features_details, all of it inside try/except
\* Exception: without <folder>/database.json the open raises and the
\* result is the [ERROR] string
ExtractMainDetails ==
    /\ \E text \in IF database = "missing" THEN {"[ERROR]"}
                    ELSE {"[ERROR]", "[DEBUG]", "ok"} :
          ToolCall("extract_main_details", "string", text)
    /\ UNCHANGED <<cwd_record, database>>

\* tool 5: extract_sub_features, all of it inside try/except Exception
ExtractSub ==
    /\ \E text \in {"[ERROR]", "[DEBUG]", "ok"} :
          ToolCall("extract_sub", "string", text)
    /\ UNCHANGED <<cwd_record, database>>

\* tool 6: extract_sub_features_details, all of it inside try/except
\* Exception
ExtractSubDetails ==
    /\ \E text \in {"[ERROR]", "[DEBUG]", "ok"} :
          ToolCall("extract_sub_details", "string", text)
    /\ UNCHANGED <<cwd_record, database>>

NextPipe ==
    \/ SaveMeeting
    \/ SummarizeMeeting
    \/ ExtractMain
    \/ ExtractMainDetails
    \/ ExtractSub
    \/ ExtractSubDetails

SpecPipe == InitPipe /\ [][NextPipe]_vars

-----------------------------------------------------------------------------
(* The transcript store: save_transcript (src/database_agent.py)           *)
(*                                                                         *)
(* Here fs holds the database.json files: ./database.json and one per      *)
(* meeting folder, each a list of records.  run counts the calls and is    *)
(* the clock of created_at and updated_at, infer_log lists the calls of    *)
(* the naming agent, outcomes what each call returned.                     *)

\* "database.json" in the working directory
CwdDb == <<<<".">>, "database.json">>

\* meeting_name.replace(" ", "_")
FolderName(meeting_name) ==
    [i \in 1..Len(meeting_name) |->
        IF meeting_name[i] = " " THEN "_" ELSE meeting_name[i]]

\* os.path.join(folder_name, "database.json")
FolderDb(meeting_name) == <<FolderName(meeting_name), "database.json">>

\* what the naming agent may return as MeetingName.name
MeetingTitles == { <<"T", " ", "1">>, <<"U">> }

FilePaths == {"a.txt", "b.txt"}
Contents == {"c1", "c2"}

\* steps 2-3: database.json is created with [] when missing, then loaded
LoadDb(files) == IF CwdDb \in DOMAIN files THEN files[CwdDb] ELSE <<>>

\* step 4: the position of the first record of the file path, 0 for None
FindRecord(db_data, file_path) ==
    IF \E k \in 1..Len(db_data) : db_data[k].filepath = file_path
    THEN CHOOSE k \in 1..Len(db_data) :
            /\ db_data[k].filepath = file_path
            /\ \A j \in 1..(k - 1) : db_data[j].filepath # file_path
    ELSE 0

InitSave ==
    /\ pc = "idle"
    /\ DriverIdle
    /\ SlugIdle
    /\ MainIdle
    /\ PipeIdle

\* what save_transcript leaves alone
saveRest == <<sub_features_txt, fs0, pc, sub_features_map, mi,
              main_feature_text, feature_blocks, bi, feature_details, result,
              prev, otherVars>>

\* what a call returned, or that it raised
SaveOutcome(file_path, kind, id, title) ==
    [file_path |-> file_path, kind |-> kind, id |-> id, title |-> title]

\* lines 60-61: the transcript file is missing
SaveFileMissing ==
    /\ run < MaxRuns
    /\ \E file_path \in FilePaths :
          outcomes' = Append(outcomes,
                             SaveOutcome(file_path, "error", 0, <<>>))
    /\ run' = run + 1
    /\ UNCHANGED <<fs, infer_log, saveRest>>

\* lines 63-88, 116-120: the record of the file path is in ./database.json;
\* its text and updated_at are replaced, the naming agent is not called
SaveExisting ==
    /\ run < MaxRuns
    /\ \E file_path \in FilePaths, content \in Contents :
          LET db_data == LoadDb(fs)
              k == FindRecord(db_data, file_path)
          IN /\ k # 0
             /\ fs' = [fs EXCEPT ![CwdDb] =
                          [db_data EXCEPT ![k].text = content,
                                          ![k].updated_at = run + 1]]
             /\ outcomes' = Append(outcomes,
                   SaveOutcome(file_path, "updated", db_data[k].id,
                               db_data[k].title))
    /\ run' = run + 1
    /\ UNCHANGED <<infer_log, saveRest>>

\* lines 63-82, 90-120: no record of the file path in ./database.json; a
\* record is appended, the naming agent gives the title, database.json is
\* moved into the meeting folder (over the one that is there) unless the
\* move fails, and step 6 writes through the handle opened at step 3
SaveNew ==
    /\ run < MaxRuns
    /\ \E file_path \in FilePaths, content \in Contents,
          title \in MeetingTitles, move_ok \in BOOLEAN :
          LET loaded == LoadDb(fs)
              db_data == Append(loaded,
                            [id |-> Len(loaded) + 1, filepath |-> file_path,
                             title |-> title, text |-> content,
                             created_at |-> run + 1, updated_at |-> run + 1])
          IN /\ FindRecord(loaded, file_path) = 0
             /\ fs' = IF move_ok
                      THEN (FolderDb(title) :> db_data)
                               @@ [q \in DOMAIN fs \ {CwdDb} |-> fs[q]]
                      ELSE (CwdDb :> db_data) @@ fs
             /\ infer_log' = Append(infer_log, file_path)
             /\ outcomes' = Append(outcomes,
                   SaveOutcome(file_path, "created", Len(loaded) + 1, title))
    /\ run' = run + 1
    /\ UNCHANGED saveRest

\* line 104 raises: nothing is written, ./database.json stays as step 2
\* left it, the exception leaves save_transcript
SaveNamingRaises ==
    /\ run < MaxRuns
    /\ \E file_path \in FilePaths :
          /\ FindRecord(LoadDb(fs), file_path) = 0
          /\ infer_log' = Append(infer_log, file_path)
          /\ outcomes' = Append(outcomes,
                                SaveOutcome(file_path, "raised", 0, <<>>))
    /\ fs' = (CwdDb :> LoadDb(fs)) @@ fs
    /\ run' = run + 1
    /\ UNCHANGED saveRest

NextSave ==
    \/ SaveFileMissing
    \/ SaveExisting
    \/ SaveNew
    \/ SaveNamingRaises

SpecSave == InitSave /\ [][NextSave]_vars

-----------------------------------------------------------------------------
(* The three feature stages one after another over the same meeting folder: *)
(* Detail-Main writes the detail files, Extract-Sub reads them and writes   *)
(* sub_features.txt, Detail-Sub parses it and reads the detail files.       *)

Line_Ab == <<"-", " ", "A", " ", "b">>
Line_fg == <<"-", " ", "f", ")", " ", "g">>

\* main_features.txt of the chain: a title with a space and upper case, and
\* one with a parenthesis
ChainTexts == {TextOf(ls) : ls \in SeqsUpTo({Line_Ab, Line_fg}, 2)}

InitChain ==
    /\ main_features_txt \in ChainTexts
    /\ database = "ok"
    /\ main_features = <<>>
    /\ fi = 0
    /\ completed_features = {}
    /\ pc = "idle"
    /\ DriverIdle
    /\ SlugIdle
    /\ PipeIdle

\* the tools of the three stages, in the order the manager is asked to
\* call them
ChainOrder == SubSeq(StageOrder, 4, 6)

\* a tool call is over and the next tool is called in a new process:
\* nothing of the finished call is left but the files
NextTool ==
    /\ pc \in {"done", "crashed"}
    /\ Len(stage_log) < Len(ChainOrder)
    /\ stage_log' = Append(stage_log,
                           [stage |-> ChainOrder[Len(stage_log) + 1],
                            out |-> "string", text |-> result])
    /\ pc' = "idle"
    /\ run' = 0
    /\ fs0' = fs
    /\ main_features' = <<>>
    /\ fi' = 0
    /\ completed_features' = {}
    /\ sub_features_map' = <<>>
    /\ mi' = 0
    /\ main_feature_text' = <<>>
    /\ feature_blocks' = <<>>
    /\ bi' = 0
    /\ feature_details' = <<>>
    /\ outcomes' = <<>>
    /\ infer_log' = <<>>
    /\ result' = "none"
    /\ prev' = [completed |-> FALSE, outcomes |-> <<>>, result |-> "none"]
    /\ UNCHANGED <<sub_features_txt, fs, database, main_features_txt,
                   slugVars, cwd_record>>

\* each tool is called once, in order; a call in progress takes its steps
NextChain ==
    \/ pc = "idle" /\ Len(stage_log) = 0 /\ NextMain
    \/ pc = "idle" /\ Len(stage_log) = 1 /\ NextSub
    \/ pc = "idle" /\ Len(stage_log) = 2 /\ Next
    \/ pc \notin {"idle", "done", "crashed"} /\ (NextMain \/ NextSub \/ Next)
    \/ NextTool

SpecChain == InitChain /\ [][NextChain]_vars

-----------------------------------------------------------------------------
(* Properties of the parser and the block grouping (SpecParse)             *)

\* the body lines of all blocks, in block order
RECURSIVE ConcatBodies(_)
ConcatBodies(blocks) ==
    IF blocks = <<>> THEN <<>>
    ELSE SplitNL(blocks[1]) \o ConcatBodies(Tail(blocks))

\* a body line read back as a child line (indentLevel, text)
LineToChild(l) == <<Len(l) - Len(LStrip(l, {" "})), LStrip(l, {" "})>>

\* positions, among the child lines, of the first line of each block
RECURSIVE BodyLinesBefore(_, _)
BodyLinesBefore(blocks, k) ==
    IF k <= 1 THEN 0
    ELSE Len(SplitNL(blocks[k - 1])) + BodyLinesBefore(blocks, k - 1)

BlockStarts(blocks) ==
    {BodyLinesBefore(blocks, k) + 1 : k \in 1..Len(blocks)}

\* C5: lossless partition - the blocks of a main feature hold as many body
\* lines as the main feature has child lines, and the body lines of the
\* blocks, in order, are exactly the child lines in source order.
Thm_C5_LosslessPartition ==
    pc = "grouped" =>
        LET body == ConcatBodies(feature_blocks)
        IN /\ Len(body) = Len(CurSubFeatures)
           /\ \A i \in 1..Len(body) : LineToChild(body[i]) = CurSubFeatures[i]

Wit_C5 ==
    /\ pc = "grouped"
    /\ Len(feature_blocks) >= 2
    /\ \E k \in 1..Len(feature_blocks) : Len(SplitNL(feature_blocks[k])) >= 2

\* C6: the outline "1) Login / - Email login /    -- password hashing /
\* - Social login" yields exactly two blocks: "Email login" holding the two
\* lines "- Email login" and "-- password hashing", then "Social login"
\* holding one line.
C6_LoginExampleTwoBlocks ==
    (sub_features_txt = ExampleLogin /\ pc = "grouped") =>
        /\ CurMain = T_Login
        /\ Len(feature_blocks) = 2
        /\ BlockTitle(feature_blocks[1]) = T_EmailLogin
        /\ SplitNL(feature_blocks[1]) =
              << <<"-", " ">> \o T_EmailLogin,
                 <<" ", " ", " ", "-", "-", " ">> \o T_PasswordHashing >>
        /\ BlockTitle(feature_blocks[2]) = T_SocialLogin
        /\ SplitNL(feature_blocks[2]) = << <<"-", " ">> \o T_SocialLogin >>

\* C7 as stated: a child line is the first line of a block if and only if
\* its indentLevel is at most 3 and its text starts with "-", an en-dash or
\* a bullet glyph.
C7_TriggerAnyBullet ==
    pc = "grouped" =>
        \A i \in 1..Len(CurSubFeatures) :
            (i \in BlockStarts(feature_blocks)) <=>
                (/\ CurSubFeatures[i][1] <= 3
                 /\ Head(CurSubFeatures[i][2]) \in {"-", EnDash, BulletGlyph})

\* C7 amended: a child line is the first line of a block if and only if it
\* is the first child line of the main feature, or its indentLevel is at
\* most 3 and its text starts with "-"; every line is placed, unchanged, in
\* the block of the nearest such line at or before it.
Thm_C7_TriggerHyphen ==
    pc = "grouped" =>
        /\ \A i \in 1..Len(CurSubFeatures) :
              (i \in BlockStarts(feature_blocks)) <=>
                  \/ i = 1
                  \/ /\ CurSubFeatures[i][1] <= 3
                     /\ Head(CurSubFeatures[i][2]) = "-"
        /\ ConcatBodies(feature_blocks) =
              [i \in 1..Len(CurSubFeatures) |->
                  Spaces(CurSubFeatures[i][1]) \o CurSubFeatures[i][2]]

Wit_C7 ==
    /\ pc = "grouped"
    /\ \E i \in 2..Len(CurSubFeatures) :
          /\ Head(CurSubFeatures[i][2]) \in {EnDash, BulletGlyph}
          /\ CurSubFeatures[i][1] <= 3
          /\ i \notin BlockStarts(feature_blocks)
    /\ \E i \in 2..Len(CurSubFeatures) : i \in BlockStarts(feature_blocks)

\* the outline as a list: one node per main-feature line, in the order the
\* lines are met, each holding the bullet lines up to the next such line
RECURSIVE NodeList(_, _, _)
NodeList(lines, i, nodes) ==
    IF i > Len(lines) THEN nodes
    ELSE IF IsMainLine(lines[i])
    THEN NodeList(lines, i + 1,
                  Append(nodes, [key |-> MainTitle(lines[i]), val |-> <<>>]))
    ELSE IF IsBulletLine(lines[i]) /\ nodes # <<>>
    THEN NodeList(lines, i + 1,
                  [nodes EXCEPT ![Len(nodes)].val =
                      Append(@, <<IndentLevel(lines[i]), Strip(lines[i])>>)])
    ELSE NodeList(lines, i + 1, nodes)

\* C8: the parser yields the main-feature nodes in the order their "N)"
\* lines are met, each with the bullet lines that follow it up to the next
\* "N)" line, in source order, indentLevel being the number of leading
\* spaces; the Auth/Billing outline yields Auth with children at indent 0
\* and 2, then Billing with one child.
C8_NodesInEncounterOrder ==
    (pc = "parsed" /\ result = "parsed") =>
        /\ sub_features_map = NodeList(ReadLines(sub_features_txt), 1, <<>>)
        /\ sub_features_txt = ExampleAuth =>
              /\ Len(sub_features_map) = 2
              /\ sub_features_map[1].key = T_Auth
              /\ Len(sub_features_map[1].val) = 2
              /\ sub_features_map[1].val[1][1] = 0
              /\ sub_features_map[1].val[2][1] = 2
              /\ sub_features_map[2].key = T_Billing
              /\ Len(sub_features_map[2].val) = 1

NumMainLines(lines) == Cardinality({i \in 1..Len(lines) : IsMainLine(lines[i])})

NumOwnedBullets(lines) ==
    Cardinality({i \in 1..Len(lines) :
        IsBulletLine(lines[i]) /\ \E j \in 1..(i - 1) : IsMainLine(lines[j])})

RECURSIVE NumChildren(_)
NumChildren(map) ==
    IF map = <<>> THEN 0 ELSE Len(map[1].val) + NumChildren(Tail(map))

\* C9: the parsed outline has exactly one node per main-feature line, also
\* when two such lines carry the same title, and no child line collected
\* for a node is discarded by a later main-feature line.
C9_OneNodePerMainLine ==
    (pc = "parsed" /\ result = "parsed") =>
        /\ Len(sub_features_map) = NumMainLines(ReadLines(sub_features_txt))
        /\ NumChildren(sub_features_map) =
              NumOwnedBullets(ReadLines(sub_features_txt))

-----------------------------------------------------------------------------
(* Properties of the driver (Spec)                                         *)

Kinds(os) == [i \in 1..Len(os) |-> os[i].kind]
Paths(os) == [i \in 1..Len(os) |-> os[i].path]

\* a detail file that was opened but did not receive its detail text
Truncated(content) == content = <<>> \/ content[Len(content)].tag # "details"

\* the blocks a complete run visits: for every main feature of the map whose
\* detail file exists, its blocks in order, as <<main title, block title>>
RECURSIVE ExpectedBlocks(_, _)
ExpectedBlocks(map, files) ==
    IF map = <<>> THEN <<>>
    ELSE (IF MainFile(Slugify(map[1].key)) \in DOMAIN files
          THEN [k \in 1..Len(GroupBlocks(map[1].val)) |->
                   <<map[1].key, BlockTitle(GroupBlocks(map[1].val)[k])>>]
          ELSE <<>>)
         \o ExpectedBlocks(Tail(map), files)

Visited(os) == [i \in 1..Len(os) |-> <<os[i].mf, os[i].title>>]

\* C1: a block whose file <mainFolder>/<slug(title)>.txt exists when the
\* block is reached is Skipped: no inference call, no write, and the driver
\* is at the next block (unless the process is killed at that point).
Thm_C1_SkipExisting ==
    [][(/\ pc = "block"
        /\ bi <= Len(feature_blocks)
        /\ CurPath \in DOMAIN fs
        /\ pc' # "crashed")
       => (/\ outcomes' = Append(outcomes,
                 [mf |-> CurMain, title |-> CurTitle, path |-> CurPath,
                  kind |-> "Skipped"])
           /\ infer_log' = infer_log
           /\ fs' = fs
           /\ bi' = bi + 1
           /\ pc' = "block"
           /\ feature_blocks' = feature_blocks)]_vars

Wit_C1 ==
    \E i \in 1..(Len(outcomes) - 1) :
        /\ outcomes[i].kind = "Skipped"
        /\ outcomes[i].path \in DOMAIN fs0
        /\ outcomes[i].path[1] # outcomes[i].path[2]
        /\ fs[outcomes[i].path] = fs0[outcomes[i].path]

ThreeBlocksSecondFails ==
    /\ Len(sub_features_map) = 1
    /\ Len(outcomes) = 3
    /\ \A i \in 1..3 : outcomes[i].path \notin DOMAIN fs0
    /\ outcomes[2].kind = "Failed"
    /\ outcomes[1].kind # "Failed"
    /\ outcomes[3].kind # "Failed"

\* C3 as stated: a run in which an inference call raised still returns
\* normally, having visited every block of every main feature that has a
\* detail file, and with three blocks, no pre-existing files and only the
\* second inference raising, the outcomes are [Written, Failed, Written].
C3_FailureIsolated ==
    pc = "done" =>
        /\ Visited(outcomes) = ExpectedBlocks(sub_features_map, fs0)
        /\ (\E i \in 1..Len(outcomes) : outcomes[i].kind = "Failed") =>
              result = "created"
        /\ ThreeBlocksSecondFails =>
              Kinds(outcomes) = <<"Written", "Failed", "Written">>

\* C3 amended: as C3, the outcomes being [Written, Failed, Written] when the
\* three blocks have pairwise distinct paths.
Thm_C3_FailureIsolated ==
    pc = "done" =>
        /\ Visited(outcomes) = ExpectedBlocks(sub_features_map, fs0)
        /\ (\E i \in 1..Len(outcomes) : outcomes[i].kind = "Failed") =>
              result = "created"
        /\ (/\ ThreeBlocksSecondFails
            /\ Cardinality({outcomes[i].path : i \in 1..3}) = 3) =>
              Kinds(outcomes) = <<"Written", "Failed", "Written">>

Wit_C3 ==
    /\ pc = "done"
    /\ ThreeBlocksSecondFails
    /\ Kinds(outcomes) = <<"Written", "Failed", "Written">>

\* C4: in a run that follows a killed run, a block whose file exists when
\* the run starts, truncated or complete, is Skipped without inference and
\* its file is left as it is; a block that has no file when it is reached
\* gets an inference call.
Thm_C4_ResumeAfterKill ==
    (run >= 2 /\ ~prev.completed) =>
        /\ \A i \in 1..Len(outcomes) :
              IF outcomes[i].path \in DOMAIN fs0
              THEN /\ outcomes[i].kind = "Skipped"
                   /\ fs[outcomes[i].path] = fs0[outcomes[i].path]
              ELSE \/ outcomes[i].kind \in {"Written", "Failed"}
                   \/ \E j \in 1..(i - 1) :
                         /\ outcomes[j].path = outcomes[i].path
                         /\ outcomes[j].kind = "Written"
        /\ \A i \in 1..Len(outcomes) :
              outcomes[i].kind \in {"Written", "Failed"} =>
                  outcomes[i].path \in Range(infer_log)
        /\ \A p \in Range(infer_log) : p \notin DOMAIN fs0

Wit_C4 ==
    /\ run >= 2
    /\ ~prev.completed
    /\ pc = "done"
    /\ \E i, j, k \in 1..Len(outcomes) :
          /\ outcomes[i].kind = "Skipped"
          /\ outcomes[i].path \in DOMAIN fs0
          /\ Truncated(fs[outcomes[i].path])
          /\ outcomes[j].kind = "Skipped"
          /\ outcomes[j].path \in DOMAIN fs0
          /\ outcomes[j].path[1] # outcomes[j].path[2]
          /\ ~Truncated(fs[outcomes[j].path])
          /\ outcomes[k].kind = "Written"

\* a bullet line with no main-feature line before it
HasOrphanBullet(lines) ==
    \E i \in 1..Len(lines) :
        /\ IsBulletLine(lines[i])
        /\ \A j \in 1..(i - 1) : ~IsMainLine(lines[j])

RECURSIVE DropOrphans(_, _)
DropOrphans(lines, seen_main) ==
    IF lines = <<>> THEN <<>>
    ELSE IF IsBulletLine(lines[1]) /\ ~seen_main
    THEN DropOrphans(Tail(lines), seen_main)
    ELSE <<lines[1]>> \o DropOrphans(Tail(lines),
                                     seen_main \/ IsMainLine(lines[1]))

\* C10: a bullet line met before any main-feature line is dropped without an
\* error: the run returns normally and has parsed and visited what the
\* outline without that line gives.
C10_OrphanBulletDropped ==
    (/\ pc = "done"
     /\ sub_features_txt # NoFile
     /\ HasOrphanBullet(ReadLines(sub_features_txt))) =>
        LET clean == TextOf(DropOrphans(ReadLines(sub_features_txt), FALSE))
        IN /\ result = "created"
           /\ sub_features_map = ParseOutline(clean).map
           /\ Visited(outcomes) = ExpectedBlocks(ParseOutline(clean).map, fs0)

\* an outline without a single bullet line
NoChildLines(text) ==
    /\ text # NoFile
    /\ LET lines == ReadLines(text)
       IN \A i \in 1..Len(lines) : ~IsBulletLine(lines[i])

\* the outlines of the driver's inputs that have no bullet line
NoChildTexts == {text \in DriverTexts \cup ScenarioTexts : NoChildLines(text)}

\* C11: the empty outline parses to no main feature, and a main feature
\* without child lines has no blocks; a run over an outline without child
\* lines invokes no inference, changes no file, records no block and returns
\* the normal result, and a main feature without child lines never
\* contributes a block to a run.
Thm_C11_EmptyOutline ==
    /\ (sub_features_txt = <<>> /\ pc \notin {"idle", "crashed"}) =>
          sub_features_map = <<>>
    /\ (pc \notin {"idle", "crashed"} /\ sub_features_txt \in NoChildTexts) =>
          /\ \A i \in 1..Len(sub_features_map) :
                /\ sub_features_map[i].val = <<>>
                /\ GroupBlocks(sub_features_map[i].val) = <<>>
          /\ outcomes = <<>>
          /\ infer_log = <<>>
          /\ fs = fs0
          /\ pc \in {"main", "done"}
          /\ pc = "done" => result = "created"
    /\ \A i \in 1..Len(sub_features_map) :
          sub_features_map[i].val = <<>> =>
              \A j \in 1..Len(outcomes) :
                  outcomes[j].mf # sub_features_map[i].key

Wit_C11 ==
    /\ pc = "done"
    /\ result = "created"
    /\ sub_features_txt \in NoChildTexts
    /\ Len(sub_features_map) = 2
    /\ main_feature_text # <<>>
    /\ infer_log = <<>>

-----------------------------------------------------------------------------
(* Properties of the file-name sanitizer (SpecSlug)                        *)

\* the characters a sanitized title may hold: [a-z0-9_-]
SlugChars == Range(LowerSeq) \cup Digits \cup {"_", "-"}

\* what the sanitizer is to make of one character
SlugOfChar(c) ==
    IF \E k \in 1..26 : UpperSeq[k] = c
    THEN LowerSeq[CHOOSE k \in 1..26 : UpperSeq[k] = c]
    ELSE IF c \in SlugChars THEN c ELSE "_"

\* C12: the sanitizer is defined for every title; it lower-cases the title
\* and replaces every character outside [a-z0-9_-] by "_", so the result
\* has the length of the title and only characters of [a-z0-9_-]; a title
\* that differs in letter case only gets the same result; a sanitized title
\* is sanitized to itself.
Thm_C12_Slugify ==
    /\ [](pc \in {"slugged", "recased", "reslugged"} =>
            /\ Len(safe_feature) = Len(Lower(feature))
            /\ Range(safe_feature) \subseteq SlugChars
            /\ \A i \in 1..Len(feature) :
                  safe_feature[i] = SlugOfChar(feature[i]))
    /\ [](pc = "reslugged" => safe_feature = feature)
    /\ [][pc' = "recased" => safe_feature' = safe_feature]_vars

Wit_C12 ==
    /\ pc = "recased"
    /\ Len(feature) = 3
    /\ "A" \in Range(feature)
    /\ "_" \in Range(safe_feature)
    /\ "_" \notin Range(feature)

-----------------------------------------------------------------------------
(* Colliding file names in the driver (Spec)                               *)

\* outcomes i and j, i before j, are of two blocks of the same main feature
\* with distinct titles and the same file
Collide(i, j) ==
    /\ i < j
    /\ outcomes[i].mf = outcomes[j].mf
    /\ outcomes[i].title # outcomes[j].title
    /\ outcomes[i].path = outcomes[j].path

\* the file at the path is complete and is the detail of the titled block
HoldsDetailOf(path, title) ==
    /\ path \in DOMAIN fs
    /\ Len(fs[path]) = 4
    /\ fs[path][2].tag = "Feature Block"
    /\ BlockTitle(fs[path][2].arg) = title

\* C13 as stated: when two blocks of one main feature have distinct titles
\* and the same slug, after the run the file at the shared path holds the
\* later block's detail.
C13_LaterOverwrites ==
    pc = "done" =>
        \A i, j \in 1..Len(outcomes) :
            Collide(i, j) => HoldsDetailOf(outcomes[j].path, outcomes[j].title)

\* C13 amended: the later block is Skipped whenever the earlier block was
\* Written or Skipped, and then no inference is invoked for it; a file the
\* earlier block wrote still holds the earlier block's detail; the later
\* block is Written only when the path had no file at the start of the run
\* and every earlier block of that path Failed.
Thm_C13_LaterSkipped ==
    \A i, j \in 1..Len(outcomes) :
        Collide(i, j) =>
            /\ outcomes[i].kind \in {"Written", "Skipped"} =>
                  outcomes[j].kind = "Skipped"
            /\ outcomes[i].kind = "Written" =>
                  /\ HoldsDetailOf(outcomes[i].path, outcomes[i].title)
                  /\ Cardinality({k \in 1..Len(infer_log) :
                                     infer_log[k] = outcomes[i].path}) = 1
            /\ outcomes[j].kind = "Written" =>
                  /\ outcomes[i].kind = "Failed"
                  /\ outcomes[j].path \notin DOMAIN fs0

Wit_C13 ==
    /\ pc = "done"
    /\ \E i, j \in 1..Len(outcomes) :
          /\ Collide(i, j)
          /\ outcomes[i].kind = "Written"
          /\ outcomes[j].kind = "Skipped"
          /\ HoldsDetailOf(outcomes[i].path, outcomes[i].title)

\* C14: a block is never Skipped because of a file that a block of a
\* different main feature wrote: when a block is Skipped at a path that had
\* no file at the start of the run, the block that wrote the file belongs
\* to the same main feature.
C14_MainFeaturesIndependent ==
    \A i, j \in 1..Len(outcomes) :
        (/\ i < j
         /\ outcomes[j].kind = "Skipped"
         /\ outcomes[j].path \notin DOMAIN fs0
         /\ outcomes[i].kind = "Written"
         /\ outcomes[i].path = outcomes[j].path)
        => outcomes[i].mf = outcomes[j].mf

-----------------------------------------------------------------------------
(* Properties of the manager (SpecPipe)                                    *)

\* C15: the stages of a session are called in the order Save, Summarize,
\* ExtractMain, DetailMain, ExtractSub, DetailSub: the k-th call of the
\* session is the k-th stage of the list, none skipped, none reordered.
C15_StrictStageOrder ==
    /\ Len(stage_log) <= Len(StageOrder)
    /\ \A k \in 1..Len(stage_log) : stage_log[k].stage = StageOrder[k]

\* C16: every stage the manager calls comes back with a string: no call
\* lets an exception through, and the session is never ended by one.
C16_StagesReturnStrings ==
    /\ pc # "crashed"
    /\ \A k \in 1..Len(stage_log) : stage_log[k].out = "string"

-----------------------------------------------------------------------------
(* Properties of the main-feature detail stage (SpecMain)                  *)

\* C17: a main feature whose detail file <slug>/<slug>.txt exists when a
\* run of Detail-Main starts gets no inference call in that run, and the
\* file is left as it is.
C17_DetailMainWriteOnce ==
    /\ \A k \in 1..Len(infer_log) : infer_log[k] \notin DOMAIN fs0
    /\ \A path \in DOMAIN fs0 : path \in DOMAIN fs /\ fs[path] = fs0[path]

\* C19: a run of Detail-Main in which the inference call raised for a main
\* feature has still processed every main feature of main_features.txt, in
\* order, when it returns.
C19_MainFailureIsolated ==
    (/\ pc = "done"
     /\ \E k \in 1..Len(outcomes) : outcomes[k].kind = "Failed")
    => [k \in 1..Len(outcomes) |-> outcomes[k].mf] = main_features

-----------------------------------------------------------------------------
(* Missing input and sequencing in the sub-feature detail stage (Spec)     *)

\* C18 as stated: without sub_features.txt the stage returns the string
\* that says so and invokes no inference; once a main feature of the
\* outline is found to have no detail file, the stage stops there: no
\* inference is invoked for any later main feature and the result is not
\* the normal one.
C18_AbortOnMissing ==
    /\ (sub_features_txt = NoFile /\ pc = "done") =>
          (result = "no_sub_features" /\ infer_log = <<>>)
    /\ \A i \in 1..Len(sub_features_map) :
          (/\ i < mi
           /\ MainFile(Slugify(sub_features_map[i].key)) \notin DOMAIN fs0)
          => /\ \A k \in 1..Len(infer_log) :
                   \E h \in 1..(i - 1) :
                       Slugify(sub_features_map[h].key) = infer_log[k][1]
             /\ pc = "done" => result # "created"

\* C18 amended: without sub_features.txt the stage returns the string that
\* says so, having parsed nothing, invoked no inference and changed no
\* file; a main feature without detail file is skipped, none of its blocks
\* getting an inference call or an outcome, while the other main features
\* are processed as usual and the run returns its normal result; a run
\* always ends with a result string.
Thm_C18_MissingInput ==
    /\ (sub_features_txt = NoFile /\ pc \notin {"idle", "crashed"}) =>
          /\ pc = "done"
          /\ result = "no_sub_features"
          /\ sub_features_map = <<>>
          /\ infer_log = <<>>
          /\ outcomes = <<>>
          /\ fs = fs0
    /\ \A k \in 1..Len(outcomes) :
          MainFile(Slugify(outcomes[k].mf)) \in DOMAIN fs0
    /\ \A k \in 1..Len(infer_log) :
          MainFile(infer_log[k][1]) \in DOMAIN fs0
    /\ pc = "done" =>
          /\ result \in {"no_sub_features", "error", "created"}
          /\ result = "created" =>
                Visited(outcomes) = ExpectedBlocks(sub_features_map, fs0)
          /\ (\E i \in 1..Len(sub_features_map) :
                 MainFile(Slugify(sub_features_map[i].key)) \notin DOMAIN fs0)
             => result = "created"

Wit_C18 ==
    /\ pc = "done"
    /\ result = "created"
    /\ Len(sub_features_map) = 2
    /\ MainFile(Slugify(sub_features_map[1].key)) \notin DOMAIN fs0
    /\ sub_features_map[1].val # <<>>
    /\ \E k \in 1..Len(outcomes) :
          /\ outcomes[k].mf = sub_features_map[2].key
          /\ outcomes[k].kind = "Written"

\* inference calls of the current run that were made and have neither
\* returned nor raised
InFlight ==
    Len(infer_log)
      - Cardinality({k \in 1..Len(outcomes) :
                        outcomes[k].kind \in {"Written", "Failed"}})
      - (IF pc = "write" THEN 1 ELSE 0)

\* files created in the current run that are not complete
OpenFiles == {path \in DOMAIN fs \ DOMAIN fs0 : Len(fs[path]) # 4}

\* the blocks before the current one of the current main feature have their
\* outcomes, the last outcomes recorded
EarlierBlocksDone ==
    /\ Len(outcomes) >= bi - 1
    /\ \A b \in 1..(bi - 1) :
          /\ outcomes[Len(outcomes) - (bi - 1) + b].mf = CurMain
          /\ outcomes[Len(outcomes) - (bi - 1) + b].title =
                BlockTitle(feature_blocks[b])

\* C20: in a run at most one inference call is in flight, and only while
\* the driver waits for it; when the existence check of a block is made,
\* every earlier block has its outcome, no inference call is in flight and
\* every file the run created is complete; at most one file is open for
\* writing, that of the current block.
Thm_C20_Sequential ==
    pc \in {"main", "block", "infer", "write", "done"} =>
        /\ InFlight \in {0, 1}
        /\ InFlight = 1 <=> pc = "infer"
        /\ OpenFiles = IF pc = "write" THEN {CurPath} ELSE {}
        /\ pc = "block" =>
              /\ feature_details = <<>>
              /\ EarlierBlocksDone
        /\ pc \in {"infer", "write"} =>
              /\ infer_log[Len(infer_log)] = CurPath
              /\ EarlierBlocksDone

Wit_C20 ==
    /\ pc = "infer"
    /\ bi = 3
    /\ Len(infer_log) = 2
    /\ outcomes[Len(outcomes)].kind = "Written"
    /\ outcomes[Len(outcomes) - 1].kind = "Skipped"

-----------------------------------------------------------------------------
(* Properties of the outline extraction stage (SpecSub)                    *)

\* an earlier call appended an outline for the title
ExtractedBefore(title) ==
    \E j \in 1..Len(prev.outcomes) :
        /\ prev.outcomes[j].kind = "Written"
        /\ prev.outcomes[j].title = title

\* C21: a call of Extract-Sub that follows an interrupted call and runs to
\* its end skips a main feature only if an outline was appended for it
\* before, and appends an outline only for a feature that had none.
C21_ResumeSafely ==
    (/\ run >= 2
     /\ prev.result \in {"killed", "error"}
     /\ pc = "done"
     /\ result = "created")
    => \A i \in 1..Len(outcomes) :
          /\ outcomes[i].kind = "Skipped" => ExtractedBefore(outcomes[i].title)
          /\ outcomes[i].kind = "Written" => ~ExtractedBefore(outcomes[i].title)

-----------------------------------------------------------------------------
(* Properties of the transcript store (SpecSave)                           *)

\* the records of a file path in all the database.json files
RecordsOf(file_path) ==
    {<<q, k>> \in {<<q, k>> \in (DOMAIN fs) \X (1..MaxRuns) :
                      k <= Len(fs[q])} :
        fs[q][k].filepath = file_path}

\* C22: a call of save_transcript with a file path that an earlier call
\* saved (and whose file is still there) updates the record: it does not
\* call the naming agent, the title and the id are those of the earlier
\* call, and there is exactly one record of the file path.
C22_TitleOnlyIfNew ==
    \A i, j \in 1..Len(outcomes) :
        (/\ i < j
         /\ outcomes[i].file_path = outcomes[j].file_path
         /\ outcomes[i].kind \in {"created", "updated"}
         /\ outcomes[j].kind # "error")
        => /\ outcomes[j].kind = "updated"
           /\ outcomes[j].title = outcomes[i].title
           /\ outcomes[j].id = outcomes[i].id
           /\ j = Len(outcomes) =>
                 Cardinality(RecordsOf(outcomes[j].file_path)) = 1

-----------------------------------------------------------------------------
(* Properties of the stages one after another (SpecChain)                  *)

\* some file holds what Detail-Main writes for the title
HasDetail(title) ==
    \E q \in DOMAIN fs : \E details \in InferOutputs :
        fs[q] = MainFileParts(title, details)

\* C23: for a title t of main_features.txt the path Detail-Main writes,
\* the path Extract-Sub reads and the path Detail-Sub reads for an outline
\* line "N) t" are the same, and neither Extract-Sub nor Detail-Sub finds
\* the detail file missing for a title Detail-Main has detailed.
Thm_C23_PathAgreement ==
    /\ \A t \in Range(MainFeaturesOf(main_features_txt)), n \in 1..9 :
          MainFile(Slugify(MainTitle(NumberedTitle(n, t))))
              = MainFile(Slugify(t))
    /\ (pc = "feature" /\ fi <= Len(main_features)) =>
          CurFeaturePath = MainFile(Slugify(CurFeature))
    /\ (pc = "sfeature" /\ fi <= Len(main_features)) =>
          /\ FeatureFile = MainFile(Slugify(CurFeature))
          /\ HasDetail(CurFeature) => Exists(fs, FeatureFile)
    /\ \A i \in 1..Len(outcomes) :
          outcomes[i].kind = "Missing" => ~HasDetail(outcomes[i].title)
    /\ (pc = "main" /\ mi <= Len(sub_features_map)) =>
          \A t \in Range(MainFeaturesOf(main_features_txt)), n \in 1..9 :
              (HasDetail(t) /\ CurMain = MainTitle(NumberedTitle(n, t)))
                  => Exists(fs, MainFile(SafeMain))

Wit_C23 ==
    /\ Len(stage_log) = 2
    /\ pc = "block"
    /\ CurMain = <<"f", ")", " ", "g">>
    /\ HasDetail(CurMain)
    /\ \E n \in 1..9 :
          NumberedTitle(n, CurMain) \in Range(ReadLines(sub_features_txt))
    /\ main_feature_text = fs[MainFile(Slugify(CurMain))]
    /\ main_feature_text = MainFileParts(CurMain, <<"d">>)

-----------------------------------------------------------------------------
(* Further properties of the driver (Spec)                                 *)

\* C24: every file that was there when the run started is there with the
\* same content at any later point of the run, the main feature's own
\* detail file included, and a block whose path is the main feature's
\* detail file is Skipped.
Thm_C24_ExistingUntouched ==
    /\ \A q \in DOMAIN fs0 : q \in DOMAIN fs /\ fs[q] = fs0[q]
    /\ \A i \in 1..Len(outcomes) :
          outcomes[i].path[1] = outcomes[i].path[2] =>
              outcomes[i].kind = "Skipped"

Wit_C24 ==
    /\ pc = "done"
    /\ run >= 2
    /\ \E i, j \in 1..Len(outcomes) :
          /\ outcomes[i].path[1] = outcomes[i].path[2]
          /\ outcomes[i].title = <<"A">>
          /\ outcomes[i].kind = "Skipped"
          /\ fs[outcomes[i].path] = MainDetailContent(<<"a">>)
          /\ outcomes[j].path[1] # outcomes[j].path[2]
          /\ outcomes[j].path \in DOMAIN fs0
          /\ outcomes[j].kind = "Skipped"

\* the block of outcome i of the earlier run Failed and no block of that run
\* wrote its path
FailedAndNotWritten(i) ==
    /\ prev.outcomes[i].kind = "Failed"
    /\ \A j \in 1..Len(prev.outcomes) :
          prev.outcomes[j].path = prev.outcomes[i].path =>
              prev.outcomes[j].kind # "Written"

\* C25: a block whose inference call raised had no file when it was reached
\* and leaves none, unless another block of the run writes that path; in the
\* run after a completed run the path of such a block does not exist at the
\* start, and the block is not Skipped but gets an inference call, unless
\* a block before it wrote the path in this run.
Thm_C25_FailedLeavesNoFile ==
    /\ \A i \in 1..Len(outcomes) :
          outcomes[i].kind = "Failed" =>
              /\ outcomes[i].path \notin DOMAIN fs0
              /\ outcomes[i].path \in Range(infer_log)
              /\ outcomes[i].path \in DOMAIN fs =>
                    \/ \E j \in 1..Len(outcomes) :
                          /\ outcomes[j].path = outcomes[i].path
                          /\ outcomes[j].kind = "Written"
                    \/ pc = "write" /\ CurPath = outcomes[i].path
    /\ (run >= 2 /\ prev.completed) =>
          \A i \in 1..Len(prev.outcomes) :
              FailedAndNotWritten(i) =>
                  /\ prev.outcomes[i].path \notin DOMAIN fs0
                  /\ \A k \in 1..Len(outcomes) :
                        (/\ outcomes[k].path = prev.outcomes[i].path
                         /\ \A j \in 1..(k - 1) :
                               outcomes[j].path # outcomes[k].path)
                        => /\ outcomes[k].kind \in {"Written", "Failed"}
                           /\ outcomes[k].path \in Range(infer_log)

Wit_C25 ==
    /\ run >= 2
    /\ prev.completed
    /\ pc = "done"
    /\ \E i \in 1..Len(prev.outcomes) :
          /\ FailedAndNotWritten(i)
          /\ \E j \in 1..Len(prev.outcomes) : prev.outcomes[j].kind = "Written"
          /\ \E k \in 1..Len(outcomes) :
                /\ outcomes[k].path = prev.outcomes[i].path
                /\ outcomes[k].kind = "Written"
                /\ outcomes[k].path \in DOMAIN fs

\* C26: a run that has ended has given exactly one outcome, in outline
\* order, to every block of every main feature of the outline whose detail
\* file exists.
C26_EveryBlockOneOutcome ==
    (pc = "done" /\ sub_features_txt # NoFile) =>
        Visited(outcomes) =
            ExpectedBlocks(NodeList(ReadLines(sub_features_txt), 1, <<>>),
                           fs0)

====
